---- MODULE Spec2Model ----
(***************************************************************************)
(* Model of the random-draw rooms server: the persisted Room/Log tables,   *)
(* the in-memory ConnectionManager (app/routers/websocket.py), the         *)
(* per-connection coroutine websocket_endpoint, the leave broadcasts that  *)
(* ConnectionManager.disconnect schedules with asyncio.create_task, the    *)
(* periodic cleanup and the HTTP handlers that touch the same state.       *)
(*                                                                         *)
(* Scheduling: one asyncio event loop.  A coroutine runs atomically from   *)
(* one suspension point to the next; the suspension points are the awaits  *)
(* on the network (receive_text, send_text).  The SQLAlchemy session is    *)
(* synchronous, so database calls do not suspend.                          *)
(***************************************************************************)
EXTENDS Integers, Sequences, FiniteSets, TLC

(* ------------------------------ bounds -------------------------------- *)
\* websocket connections opened over a run (connection handles 1..MaxSessions)
MaxSessions == 2
\* clock ticks the model lets pass
MaxTicks == 2
\* rows the logs table may reach
MaxLogs == 2
\* rooms created over a run
MaxRooms == 1
\* client messages, lost connections, HTTP requests to update-params and
\* /api/disconnect, and cleanups over a run
MaxEvents == 2
\* random.randint(a, b) is explored on the DrawSpread lowest and the
\* DrawSpread highest integers of a..b
DrawSpread == 1
\* calls of connect and disconnect over a run of the manager on its own
MaxCalls == 5
\* calls of connect and connection losses over a run of the manager with
\* failing sends
MaxPruningCalls == 4

(* -------------------------- program constants -------------------------- *)
\* Room.min_value / Room.max_value column defaults
DefaultMin == 1
DefaultMax == 100
\* ConnectionManager.inactivity_timeout, seconds
inactivity_timeout == 600

(* ------------------------------ inputs --------------------------------- *)
\* room ids a request may name; uuid4 returns them in this order
RoomIdSeq == <<"r1", "r2">>
RoomIds == {RoomIdSeq[i] : i \in 1..Len(RoomIdSeq)}
ClientIds == {"a", "b"}
Sessions == 1..MaxSessions
\* min_value / max_value a form may send
ParamInputs == {10, 20}
\* seconds between two readings of the clock: a tick reaches the timeout
\* exactly, the next one exceeds it
TickSeconds == inactivity_timeout
\* room and client ids the calls of the manager on its own may name
ManagerRoomIds == {"r1"}
ManagerClientIds == {"a", "b", "c"}
\* usernames a name_change may carry
NameInputs == {"Ann"}

VARIABLES
    rooms,          \* rooms table: id -> [min_value, max_value, with_replacement]
    logs,           \* logs table, in insertion order
    active_rooms,   \* manager.active_rooms: room_id -> dict client_id -> websocket
    user_names,     \* manager.user_names: room_id -> (client_id -> username)
    last_activity,  \* manager.last_activity: room_id -> (client_id -> time)
    tasks,          \* tasks made by asyncio.create_task in disconnect, oldest first
    pc,             \* where each websocket_endpoint coroutine is
    args,           \* its (room_id, client_id)
    room,           \* its ORM object `room`, with the session's expired flag
    pass,           \* the broadcast loop it is suspended in
    alive,          \* whether a send_text on the connection succeeds
    now,            \* datetime.utcnow(), seconds
    response,       \* what the last HTTP handler or cleanup returned, or the
                    \* heartbeat_ack the last heartbeat was answered with
    events,         \* how many of the MaxEvents have happened
    swept           \* open connections a cleanup has removed from the registry

vars == <<rooms, logs, active_rooms, user_names, last_activity, tasks,
          pc, args, room, pass, alive, now, response, events, swept>>

None == [kind |-> "none"]

\* the empty dict
EmptyFn == [x \in {} |-> 0]

(* --------------------- Python dict with live iterators ------------------ *)
\* A dict is its insertion-ordered entries array; a deleted key leaves a
\* hole, as in CPython (no resize happens below six insertions).  `id` tells
\* one dict object from a later one stored under the same room_id.
Hole == [key |-> "-", val |-> 0, live |-> FALSE]

LiveSlots(d) == {i \in 1..Len(d.entries) : d.entries[i].live}

dict_len(d) == Cardinality(LiveSlots(d))

dict_has(d, k) == \E i \in LiveSlots(d) : d.entries[i].key = k

dict_slot(d, k) == CHOOSE i \in LiveSlots(d) : d.entries[i].key = k

dict_get(d, k) == d.entries[dict_slot(d, k)].val

dict_set(d, k, v) ==
    IF dict_has(d, k)
    THEN [d EXCEPT !.entries[dict_slot(d, k)].val = v]
    ELSE [d EXCEPT !.entries = Append(@, [key |-> k, val |-> v, live |-> TRUE])]

\* a del that leaves the key in the dict
dict_del_nothing(d, k) == d

dict_del(d, k) == [d EXCEPT !.entries[dict_slot(d, k)] = Hole]

dict_keys(d) == {d.entries[i].key : i \in LiveSlots(d)}

dict_values(d) == {d.entries[i].val : i \in LiveSlots(d)}

\* list(d.keys()): the live keys in insertion order
RECURSIVE keys_from(_, _)
keys_from(d, i) ==
    IF i > Len(d.entries) THEN <<>>
    ELSE IF d.entries[i].live THEN <<d.entries[i].key>> \o keys_from(d, i + 1)
    ELSE keys_from(d, i + 1)

key_list(d) == keys_from(d, 1)

\* a deletion that deletes nothing
fn_del_nothing(f, k) == f

\* plain dicts whose order nothing reads: functions
fn_del(f, k) == [x \in DOMAIN f \ {k} |-> f[x]]

fn_set(f, k, v) == [x \in DOMAIN f \cup {k} |-> IF x = k THEN v ELSE f[x]]

(* --------------------------- ConnectionManager -------------------------- *)
\* The manager's fields and the event loop's task list, threaded through the
\* operators below as one record.
Mgr == [active_rooms |-> active_rooms, user_names |-> user_names,
        last_activity |-> last_activity, tasks |-> tasks]

default_name(n) == "User " \o ToString(n)

get_users(m, room_id) ==
    IF room_id \notin DOMAIN m.user_names THEN EmptyFn ELSE m.user_names[room_id]

\* the coroutine object create_task receives: broadcast_to_room(room_id, message)
leave_task(room_id, message) ==
    [kind |-> "leave", started |-> FALSE, room_id |-> room_id, message |-> message]

\* a disconnect that announces a leave without looking the client up
disconnect_unguarded(m, room_id, client_id) ==
    [m EXCEPT !.tasks =
        Append(@, leave_task(room_id,
                             [type |-> "leave", client_id |-> client_id,
                              username |-> "Unknown user",
                              users |-> get_users(m, room_id)]))]

\* line 58, `if not self.active_rooms[room_id]`
room_is_empty_never(conns) == FALSE

room_is_empty(conns) == dict_len(conns) = 0

disconnect(m, room_id, client_id) ==
    IF room_id \in DOMAIN m.active_rooms /\ dict_has(m.active_rooms[room_id], client_id)
    THEN LET conns == dict_del(m.active_rooms[room_id], client_id)
             la == IF room_id \in DOMAIN m.last_activity
                      /\ client_id \in DOMAIN m.last_activity[room_id]
                   THEN [m.last_activity EXCEPT ![room_id] = fn_del(@, client_id)]
                   ELSE m.last_activity
         IN  IF room_is_empty(conns)
             THEN [m EXCEPT !.active_rooms = fn_del(@, room_id),
                            !.user_names = fn_del(@, room_id),
                            !.last_activity = fn_del(la, room_id)]
             ELSE LET username == IF client_id \in DOMAIN m.user_names[room_id]
                                  THEN m.user_names[room_id][client_id]
                                  ELSE "Unknown user"
                      un == [m.user_names EXCEPT ![room_id] = fn_del(@, client_id)]
                      message == [type |-> "leave", client_id |-> client_id,
                                  username |-> username, users |-> un[room_id]]
                  IN  [active_rooms |-> [m.active_rooms EXCEPT ![room_id] = conns],
                       user_names |-> un,
                       last_activity |-> la,
                       tasks |-> Append(m.tasks, leave_task(room_id, message))]
    ELSE m

\* connect, up to its broadcast_join: lines 29-43
register(m, websocket, room_id, client_id, t) ==
    LET fresh == room_id \notin DOMAIN m.active_rooms
        conns0 == IF fresh THEN [id |-> websocket, entries |-> <<>>]
                  ELSE m.active_rooms[room_id]
        un0 == IF fresh THEN EmptyFn ELSE m.user_names[room_id]
        la0 == IF fresh THEN EmptyFn ELSE m.last_activity[room_id]
        conns == dict_set(conns0, client_id, websocket)
    IN  [m EXCEPT !.active_rooms = fn_set(@, room_id, conns),
                  !.user_names = fn_set(@, room_id,
                                   fn_set(un0, client_id, default_name(dict_len(conns)))),
                  !.last_activity = fn_set(@, room_id, fn_set(la0, client_id, t))]

\* an update_activity that stamps every client of the room
update_activity_room(m, room_id, client_id, t) ==
    IF room_id \in DOMAIN m.last_activity
    THEN [m EXCEPT !.last_activity[room_id] =
                      [c \in DOMAIN @ \cup {client_id} |-> t]]
    ELSE m

update_activity(m, room_id, client_id, t) ==
    IF room_id \in DOMAIN m.last_activity
    THEN [m EXCEPT !.last_activity[room_id] = fn_set(@, client_id, t)]
    ELSE m

(* ------------------------------ broadcasts ------------------------------ *)
\* A broadcast loop in progress: the dict iterator (dict, used, pos), the
\* locals of the loop, and what the caller does when the loop returns.
\* `start` and `sent` record the websockets registered when the loop began
\* and those a send_text succeeded on.
new_pass(m, kind, room_id, message, then) ==
    [kind |-> kind, started |-> TRUE, room_id |-> room_id, message |-> message,
     dict |-> m.active_rooms[room_id].id,
     used |-> dict_len(m.active_rooms[room_id]),
     pos |-> 1,
     disconnected_clients |-> <<>>,
     sent |-> {},
     start |-> dict_values(m.active_rooms[room_id]),
     then |-> then]

\* the dict object the iterator holds: a dict no longer stored in
\* active_rooms has been emptied
iterated(m, p) ==
    IF p.room_id \in DOMAIN m.active_rooms /\ m.active_rooms[p.room_id].id = p.dict
    THEN m.active_rooms[p.room_id]
    ELSE [id |-> p.dict, entries |-> <<>>]

next_slots(m, p) == {i \in LiveSlots(iterated(m, p)) : i >= p.pos}

RECURSIVE disconnect_all(_, _, _)
disconnect_all(m, room_id, clients) ==
    IF clients = <<>> THEN m
    ELSE disconnect_all(disconnect(m, room_id, Head(clients)), room_id, Tail(clients))

\* One turn of `for client_id, connection in self.active_rooms[room_id].items()`
\* from the iterator's __next__ to the next await of send_text; hl tells which
\* connections a send succeeds on.  broadcast_to_room collects the failed
\* recipients and disconnects them after the loop; broadcast_parameter_update
\* only counts them.
resume(m, p, hl) ==
    IF dict_len(iterated(m, p)) # p.used
    THEN [status |-> "RuntimeError", m |-> m, p |-> p]
    ELSE IF next_slots(m, p) = {}
    THEN [status |-> "return",
          m |-> IF p.kind = "parameter_update" THEN m
                ELSE disconnect_all(m, p.room_id, p.disconnected_clients),
          p |-> p]
    ELSE LET i == CHOOSE j \in next_slots(m, p) : \A k \in next_slots(m, p) : j <= k
             e == iterated(m, p).entries[i]
         IN  [status |-> "await", m |-> m,
              p |-> IF hl[e.val]
                    THEN [p EXCEPT !.pos = i + 1, !.sent = @ \cup {e.val}]
                    ELSE [p EXCEPT !.pos = i + 1,
                                   !.disconnected_clients = Append(@, e.key)]]

username_of(m, room_id, client_id) ==
    IF client_id \in DOMAIN m.user_names[room_id]
    THEN m.user_names[room_id][client_id]
    ELSE "Unknown user"

(* ------------------------- websocket_endpoint --------------------------- *)
\* What the coroutine of connection s does with the outcome r of resume,
\* up to its next suspension: the new manager state, pc and pass.
\* A RuntimeError out of manager.connect (line 267) is outside the try and
\* ends the coroutine without manager.disconnect; elsewhere line 341 catches it.
settle(room_id, client_id, r) ==
        IF r.status = "await"
        THEN [m |-> r.m, pc |-> "send", pass |-> r.p]
        ELSE IF r.status = "RuntimeError"
        THEN [m |-> IF r.p.kind = "join" THEN r.m
                    ELSE disconnect(r.m, room_id, client_id),
              pc |-> "closed", pass |-> None]
        ELSE IF r.p.kind = "random_action" /\ r.p.then # None
                 /\ room_id \in DOMAIN r.m.active_rooms
        THEN LET message == [type |-> "parameter_update", client_id |-> client_id,
                             username |-> username_of(r.m, room_id, client_id),
                             parameters |-> r.p.then.parameters]
                 r2 == resume(r.m, new_pass(r.m, "parameter_update", room_id,
                                            message, None), alive)
             IN  [m |-> r2.m, pc |-> "send", pass |-> r2.p]
        ELSE [m |-> r.m, pc |-> "receive", pass |-> None]

\* broadcast_to_room(room_id, message) called from a connection's coroutine
broadcast_to_room(m, kind, room_id, message, then) ==
    IF room_id \in DOMAIN m.active_rooms
    THEN resume(m, new_pass(m, kind, room_id, message, then), alive)
    ELSE [status |-> "return", m |-> m,
          p |-> [kind |-> kind, then |-> None]]

(* ------------------------------ ORM session ----------------------------- *)
\* The Room object a Session holds: its loaded attributes, or Expired after
\* a commit (expire_on_commit), in which case the next attribute access
\* reloads the row.
Expired == [expired |-> TRUE]

load(room_id) ==
    [expired |-> FALSE, min_value |-> rooms[room_id].min_value,
     max_value |-> rooms[room_id].max_value,
     with_replacement |-> rooms[room_id].with_replacement]

refreshed(obj, room_id) == IF obj.expired THEN load(room_id) ELSE obj

\* a flush that emits no UPDATE
flush_nothing(row, obj, min_val, max_val, with_replacement) == row

\* the UPDATE a flush emits: only the columns whose value differs from the
\* loaded one
flush(row, obj, min_val, max_val, with_replacement) ==
    [min_value |-> IF min_val # obj.min_value THEN min_val ELSE row.min_value,
     max_value |-> IF max_val # obj.max_value THEN max_val ELSE row.max_value,
     with_replacement |-> IF with_replacement # obj.with_replacement
                          THEN with_replacement ELSE row.with_replacement]

get(message, key, default) == IF key \in DOMAIN message THEN message[key] ELSE default

\* the values random.randint(a, b) may return; none when a > b (ValueError)
randint(a, b) == {r \in a..b : r - a < DrawSpread \/ b - r < DrawSpread}

str(n) == ToString(n)

SetMgr(m) ==
    /\ active_rooms' = m.active_rooms
    /\ user_names' = m.user_names
    /\ last_activity' = m.last_activity
    /\ tasks' = m.tasks

\* the connection's coroutine reaches out.pc holding ORM object obj; when it
\* ends, the server closes the websocket and get_db closes the session
SetSession(s, out, obj) ==
    /\ SetMgr(out.m)
    /\ pc' = [pc EXCEPT ![s] = out.pc]
    /\ pass' = [pass EXCEPT ![s] = out.pass]
    /\ alive' = IF out.pc = "closed" THEN [alive EXCEPT ![s] = FALSE] ELSE alive
    /\ room' = IF out.pc = "closed" THEN [room EXCEPT ![s] = None]
               ELSE [room EXCEPT ![s] = obj]
    /\ swept' = IF out.pc = "closed" THEN swept \ {s} ELSE swept

(* -------------------------------- state --------------------------------- *)
NoArgs == [room_id |-> "-", client_id |-> "-"]

Quiet == [op |-> "none"]

Init ==
    /\ rooms = EmptyFn
    /\ logs = <<>>
    /\ active_rooms = EmptyFn
    /\ user_names = EmptyFn
    /\ last_activity = EmptyFn
    /\ tasks = <<>>
    /\ pc = [s \in Sessions |-> "new"]
    /\ args = [s \in Sessions |-> NoArgs]
    /\ room = [s \in Sessions |-> None]
    /\ pass = [s \in Sessions |-> None]
    /\ alive = [s \in Sessions |-> TRUE]
    /\ now = 0
    /\ response = Quiet
    /\ events = 0
    /\ swept = {}

\* one more of the MaxEvents happens
Event == events < MaxEvents /\ events' = events + 1

Store == <<rooms, logs>>
Manager == <<active_rooms, user_names, last_activity, tasks>>
Coroutines == <<pc, args, room, pass, alive>>

\* the websockets registered in any room
handles(m) == UNION {dict_values(m.active_rooms[r]) : r \in DOMAIN m.active_rooms}

(* ----------------------------- HTTP handlers ---------------------------- *)
\* POST /create-room: the columns the handlers below read (created_at and
\* is_coin_flip are read by the page template only)
create_room ==
    /\ events' = events
    /\ Cardinality(DOMAIN rooms) < MaxRooms
    /\ LET room_id == RoomIdSeq[Cardinality(DOMAIN rooms) + 1]
       IN  /\ rooms' = fn_set(rooms, room_id,
                              [min_value |-> DefaultMin, max_value |-> DefaultMax,
                               with_replacement |-> TRUE])
           /\ response' = Quiet
    /\ UNCHANGED <<logs, Manager, Coroutines, swept, now>>

\* a GET of the room page that answers 404 whatever the id
get_room_not_found(room_id) ==
    /\ events' = events
    /\ response' = [op |-> "get_room", room_id |-> room_id, status |-> 404]
    /\ UNCHANGED <<Store, Manager, Coroutines, swept, now>>

\* GET /room/{room_id}: 404 for an unknown id, else the room page
get_room(room_id) ==
    /\ events' = events
    /\ response' = [op |-> "get_room", room_id |-> room_id,
                    status |-> IF room_id \notin DOMAIN rooms THEN 404 ELSE 200]
    /\ UNCHANGED <<Store, Manager, Coroutines, swept, now>>

\* line 81: the validation of update_params
invalid_params_strict(min_value, max_value) == min_value > max_value

invalid_params(min_value, max_value) == min_value >= max_value

\* POST /room/{room_id}/update-params
update_params(room_id, min_value, max_value, with_replacement) ==
        /\ Event
        /\ IF room_id \notin DOMAIN rooms
           THEN /\ response' = [op |-> "update_params", status |-> 404]
                /\ rooms' = rooms
           ELSE IF invalid_params(min_value, max_value)
           THEN /\ response' = [op |-> "update_params", status |-> 400]
                /\ rooms' = rooms
           ELSE /\ response' = [op |-> "update_params", status |-> 200]
                /\ rooms' = [rooms EXCEPT ![room_id] =
                               flush(@, load(room_id), min_value, max_value,
                                     with_replacement)]
        /\ UNCHANGED <<logs, Manager, Coroutines, swept, now>>

\* POST /api/disconnect, the navigator.sendBeacon endpoint
handle_disconnect(room_id, client_id) ==
    /\ Event
    /\ SetMgr(disconnect(Mgr, room_id, client_id))
    /\ response' = [op |-> "handle_disconnect", status |-> 204]
    /\ UNCHANGED <<Store, Coroutines, swept, now>>

(* ------------------------------- cleanup -------------------------------- *)
\* lines 225-229: inactive for too long
inactive_at_timeout(last_active, t) == t - last_active >= inactivity_timeout

inactive(last_active, t) == t - last_active > inactivity_timeout

\* the inner loop of cleanup_inactive_connections over list(keys) of a room
RECURSIVE cleanup_clients(_, _, _, _, _)
cleanup_clients(m, room_id, clients, t, cleaned) ==
    IF clients = <<>> THEN [m |-> m, cleaned |-> cleaned]
    ELSE LET client_id == Head(clients)
             due == /\ room_id \in DOMAIN m.last_activity
                    /\ client_id \in DOMAIN m.last_activity[room_id]
                    /\ inactive(m.last_activity[room_id][client_id], t)
         IN  IF due
             THEN cleanup_clients(disconnect(m, room_id, client_id), room_id,
                                  Tail(clients), t, cleaned + 1)
             ELSE cleanup_clients(m, room_id, Tail(clients), t, cleaned)

\* the outer loop over list(self.active_rooms.keys())
RECURSIVE cleanup_rooms(_, _, _, _)
cleanup_rooms(m, room_ids, t, cleaned) ==
    IF room_ids = <<>> THEN [m |-> m, cleaned |-> cleaned]
    ELSE LET room_id == Head(room_ids)
             r == IF dict_len(m.active_rooms[room_id]) = 0
                  THEN [m |-> m, cleaned |-> cleaned]
                  ELSE cleanup_clients(m, room_id, key_list(m.active_rooms[room_id]),
                                       t, cleaned)
         IN  cleanup_rooms(r.m, Tail(room_ids), t, r.cleaned)

\* the rooms in an order active_rooms may hold them
RoomLists ==
    {q \in [1..Cardinality(DOMAIN active_rooms) -> DOMAIN active_rooms] :
        \A i, j \in DOMAIN q : i # j => q[i] # q[j]}

cleanup_inactive_connections ==
    /\ Event
    /\ \E room_ids \in RoomLists :
          LET r == cleanup_rooms(Mgr, room_ids, now, 0)
          IN  /\ SetMgr(r.m)
              /\ swept' = swept \cup {s \in handles(Mgr) \ handles(r.m) :
                                        pc[s] # "closed"}
              /\ response' = [op |-> "cleanup_inactive_connections",
                              cleaned |-> r.cleaned]
    /\ UNCHANGED <<Store, Coroutines, now>>

\* time passes
Tick ==
    /\ events' = events
    /\ now < MaxTicks * TickSeconds
    /\ now' = now + TickSeconds
    /\ response' = Quiet
    /\ UNCHANGED <<Store, Manager, Coroutines, swept>>

(* --------------------------- websocket_endpoint ------------------------- *)
\* line 258 in a handshake that rejects every room
room_missing_always(room_id) == TRUE

\* lines 258-259: `if not room`
room_missing(room_id) == room_id \notin DOMAIN rooms

\* lines 258-267: the room lookup, then manager.connect up to the first
\* send_text of its join broadcast.  Connections are opened in handle order.
handshake(s, room_id, client_id) ==
    /\ events' = events
    /\ pc[s] = "new"
    /\ \A t \in Sessions : t < s => pc[t] # "new"
    /\ args' = [args EXCEPT ![s] = [room_id |-> room_id, client_id |-> client_id]]
    /\ response' = Quiet
    /\ IF room_missing(room_id)
       THEN /\ pc' = [pc EXCEPT ![s] = "rejected"]
            /\ alive' = [alive EXCEPT ![s] = FALSE]
            /\ UNCHANGED <<Manager, room, pass, swept>>
       ELSE LET m1 == register(Mgr, s, room_id, client_id, now)
                message == [type |-> "join", client_id |-> client_id,
                            username |-> username_of(m1, room_id, client_id),
                            users |-> get_users(m1, room_id)]
            IN  SetSession(s, settle(room_id, client_id,
                                     broadcast_to_room(m1, "join", room_id, message, None)),
                           load(room_id))
    /\ UNCHANGED <<Store, now>>

\* a message arrives on an open connection: lines 272-276
Receives(s) == pc[s] = "receive" /\ alive[s]

Touched(s) == update_activity(Mgr, args[s].room_id, args[s].client_id, now)

\* lines 281-284
heartbeat(s) ==
    /\ Event
    /\ Receives(s)
    /\ SetMgr(Touched(s))
    /\ response' = [op |-> "heartbeat_ack", to |-> s]
    /\ UNCHANGED <<Store, Coroutines, swept, now>>

\* lines 286-289: break leaves the loop and the try; the function returns
explicit_disconnect(s) ==
    /\ Event
    /\ Receives(s)
    /\ SetSession(s, [m |-> Touched(s), pc |-> "closed", pass |-> None], None)
    /\ response' = Quiet
    /\ UNCHANGED <<Store, args, now>>

\* lines 291-292 and update_username
name_change(s, username) ==
    /\ Event
    /\ Receives(s)
    /\ LET room_id == args[s].room_id
           client_id == args[s].client_id
           m0 == Touched(s)
       IN  IF room_id \in DOMAIN m0.user_names
              /\ client_id \in DOMAIN m0.user_names[room_id]
           THEN LET m1 == [m0 EXCEPT !.user_names[room_id][client_id] = username]
                    message == [type |-> "name_change", client_id |-> client_id,
                                old_name |-> m0.user_names[room_id][client_id],
                                new_name |-> username,
                                users |-> get_users(m1, room_id)]
                IN  SetSession(s, settle(room_id, client_id,
                                   broadcast_to_room(m1, "name_change", room_id,
                                                     message, None)),
                               room[s])
           ELSE SetSession(s, [m |-> m0, pc |-> "receive", pass |-> None], room[s])
    /\ response' = Quiet
    /\ UNCHANGED <<Store, args, now>>

\* broadcast_random_action called by connection s holding ORM object obj,
\* up to its first send_text; `then` is what line 329 does afterwards
random_action(s, m, obj, action, then) ==
    LET room_id == args[s].room_id
        client_id == args[s].client_id
    IN  IF room_id \in DOMAIN m.active_rooms
        THEN LET username == username_of(m, room_id, client_id)
                 message == [type |-> "random_action", client_id |-> client_id,
                             username |-> username, action |-> action.action,
                             result |-> action.result]
                 log == [room_id |-> room_id, user_name |-> username,
                         action |-> action.action, result |-> action.result]
             IN  /\ logs' = Append(logs, log)
                 /\ SetSession(s, settle(room_id, client_id,
                                    broadcast_to_room(m, "random_action", room_id,
                                                      message, then)),
                               Expired)
        ELSE /\ logs' = logs
             /\ SetSession(s, settle(room_id, client_id,
                                [status |-> "return", m |-> m,
                                 p |-> [kind |-> "random_action", then |-> then]]),
                           obj)

\* lines 294-298
coin_flip(s, result) ==
    /\ Event
    /\ Receives(s)
    /\ Len(logs) < MaxLogs
    /\ random_action(s, Touched(s), room[s],
                     [action |-> "Coin Flip", result |-> result], None)
    /\ response' = Quiet
    /\ UNCHANGED <<rooms, args, now>>

\* lines 300-335
number_draw(s, message) ==
    /\ Event
    /\ Receives(s)
    /\ Len(logs) < MaxLogs
    /\ LET room_id == args[s].room_id
           client_id == args[s].client_id
           m0 == Touched(s)
           obj == refreshed(room[s], room_id)
           min_val == get(message, "min_value", obj.min_value)
           max_val == get(message, "max_value", obj.max_value)
           with_replacement == get(message, "with_replacement", obj.with_replacement)
           params_changed == \/ min_val # obj.min_value
                             \/ max_val # obj.max_value
                             \/ with_replacement # obj.with_replacement
           then == IF params_changed
                   THEN [kind |-> "parameter_update",
                         parameters |-> [min_value |-> min_val, max_value |-> max_val,
                                         with_replacement |-> with_replacement]]
                   ELSE None
       IN  /\ rooms' = IF params_changed
                       THEN [rooms EXCEPT ![room_id] =
                               flush(@, obj, min_val, max_val, with_replacement)]
                       ELSE rooms
           /\ IF min_val > max_val
              THEN \* random.randint raises ValueError: line 341
                   /\ logs' = logs
                   /\ SetSession(s, [m |-> disconnect(m0, room_id, client_id),
                                     pc |-> "closed", pass |-> None], None)
              ELSE \E r \in randint(min_val, max_val) :
                      random_action(s, m0, IF params_changed THEN Expired ELSE obj,
                                    [action |-> "Number Draw", result |-> str(r)], then)
    /\ response' = Quiet
    /\ UNCHANGED <<args, now>>

\* a message of another type handled by the disconnect branch
unrecognized_closes(s) == explicit_disconnect(s)

\* a message of any other type falls through the if/elif chain
unrecognized(s) ==
    /\ Event
    /\ Receives(s)
    /\ SetMgr(Touched(s))
    /\ response' = Quiet
    /\ UNCHANGED <<Store, Coroutines, swept, now>>

\* the peer goes away: sends to the connection fail from now on
connection_lost(s) ==
    /\ Event
    /\ pc[s] \in {"receive", "send"}
    /\ alive[s]
    /\ alive' = [alive EXCEPT ![s] = FALSE]
    /\ response' = Quiet
    /\ UNCHANGED <<Store, Manager, pc, args, room, pass, swept, now>>

\* receive_text raises WebSocketDisconnect: lines 337-340
websocket_disconnect(s) ==
    /\ events' = events
    /\ pc[s] = "receive"
    /\ ~alive[s]
    /\ SetSession(s, [m |-> disconnect(Mgr, args[s].room_id, args[s].client_id),
                      pc |-> "closed", pass |-> None], None)
    /\ response' = Quiet
    /\ UNCHANGED <<Store, args, now>>

\* the coroutine of connection s resumes from the send_text it awaits
resume_send(s) ==
    /\ events' = events
    /\ pc[s] = "send"
    /\ SetSession(s, settle(args[s].room_id, args[s].client_id,
                            resume(Mgr, pass[s], alive)),
                  room[s])
    /\ response' = Quiet
    /\ UNCHANGED <<Store, args, now>>

(* ---------------------- tasks made by disconnect ------------------------ *)
\* a finished task that stays pending
remove_nothing(q, i) == q

remove(q, i) == SubSeq(q, 1, i - 1) \o SubSeq(q, i + 1, Len(q))

\* the event loop starts tasks in the order they were created
start_task(i) ==
    /\ events' = events
    /\ ~tasks[i].started
    /\ \A j \in 1..(i - 1) : tasks[j].started
    /\ LET t == tasks[i]
       IN  IF t.room_id \in DOMAIN active_rooms
           THEN LET r == resume(Mgr, new_pass(Mgr, "leave", t.room_id, t.message, None),
                                alive)
                IN  SetMgr([r.m EXCEPT !.tasks[i] = r.p])
           ELSE SetMgr([Mgr EXCEPT !.tasks = remove(@, i)])
    /\ response' = Quiet
    /\ UNCHANGED <<Store, Coroutines, swept, now>>

\* a started task resumes; an exception ends the task and nothing catches it
resume_task(i) ==
    /\ events' = events
    /\ tasks[i].started
    /\ LET r == resume(Mgr, tasks[i], alive)
       IN  IF r.status = "await"
           THEN SetMgr([r.m EXCEPT !.tasks[i] = r.p])
           ELSE SetMgr([r.m EXCEPT !.tasks = remove(@, i)])
    /\ response' = Quiet
    /\ UNCHANGED <<Store, Coroutines, swept, now>>

(* ------------------------------- messages ------------------------------- *)
\* number_draw messages: no override, a range, an empty range, the flag
NumberDrawMessages ==
    {[type |-> "number_draw"],
     [type |-> "number_draw", min_value |-> 10, max_value |-> 20],
     [type |-> "number_draw", min_value |-> 20, max_value |-> 10],
     [type |-> "number_draw", with_replacement |-> FALSE]}

Next ==
    \/ create_room
    \/ \E room_id \in RoomIds, min_value, max_value \in ParamInputs,
          with_replacement \in BOOLEAN :
          update_params(room_id, min_value, max_value, with_replacement)
    \/ \E room_id \in RoomIds : get_room(room_id)
    \/ \E room_id \in RoomIds, client_id \in ClientIds :
          handle_disconnect(room_id, client_id)
    \/ cleanup_inactive_connections
    \/ Tick
    \/ \E s \in Sessions, room_id \in RoomIds, client_id \in ClientIds :
          handshake(s, room_id, client_id)
    \/ \E s \in Sessions : heartbeat(s)
    \/ \E s \in Sessions : explicit_disconnect(s)
    \/ \E s \in Sessions, username \in NameInputs : name_change(s, username)
    \/ \E s \in Sessions, result \in {"Heads", "Tails"} : coin_flip(s, result)
    \/ \E s \in Sessions, message \in NumberDrawMessages : number_draw(s, message)
    \/ \E s \in Sessions : unrecognized(s)
    \/ \E s \in Sessions : connection_lost(s)
    \/ \E s \in Sessions : websocket_disconnect(s)
    \/ \E s \in Sessions : resume_send(s)
    \/ \E i \in 1..Len(tasks) : start_task(i)
    \/ \E i \in 1..Len(tasks) : resume_task(i)

Spec == Init /\ [][Next]_vars

(* ----------------------- the manager on its own ------------------------ *)
\* ConnectionManager under any sequence of connect and disconnect calls, with
\* the broadcasts they start: every call of connect brings a new websocket,
\* and every send succeeds.  `tasks` also holds the callers suspended in the
\* join broadcast of connect; `events` counts the calls.
ManagerInit ==
    /\ rooms = EmptyFn
    /\ logs = <<>>
    /\ active_rooms = EmptyFn
    /\ user_names = EmptyFn
    /\ last_activity = EmptyFn
    /\ tasks = <<>>
    /\ pc = [s \in Sessions |-> "new"]
    /\ args = [s \in Sessions |-> NoArgs]
    /\ room = [s \in Sessions |-> None]
    /\ pass = [s \in Sessions |-> None]
    /\ alive = [websocket \in 1..MaxCalls |-> TRUE]
    /\ now = 0
    /\ response = Quiet
    /\ events = 0
    /\ swept = {}

Call == events < MaxCalls /\ events' = events + 1

\* manager.connect(websocket, room_id, client_id) up to the first send_text
\* of its join broadcast
connect(room_id, client_id) ==
    /\ Call
    /\ LET websocket == events + 1
           m1 == register(Mgr, websocket, room_id, client_id, now)
           message == [type |-> "join", client_id |-> client_id,
                       username |-> username_of(m1, room_id, client_id),
                       users |-> get_users(m1, room_id)]
           r == broadcast_to_room(m1, "join", room_id, message, None)
       IN  SetMgr([r.m EXCEPT !.tasks = Append(@, r.p)])
    /\ response' = Quiet
    /\ UNCHANGED <<Store, Coroutines, swept, now>>

\* manager.disconnect(room_id, client_id)
disconnect_call(room_id, client_id) ==
    /\ Call
    /\ SetMgr(disconnect(Mgr, room_id, client_id))
    /\ response' = Quiet
    /\ UNCHANGED <<Store, Coroutines, swept, now>>

ManagerNext ==
    \/ \E room_id \in ManagerRoomIds, client_id \in ManagerClientIds :
          connect(room_id, client_id)
    \/ \E room_id \in ManagerRoomIds, client_id \in ManagerClientIds :
          disconnect_call(room_id, client_id)
    \/ \E i \in 1..Len(tasks) : start_task(i)
    \/ \E i \in 1..Len(tasks) : resume_task(i)

ManagerSpec == ManagerInit /\ [][ManagerNext]_vars

(* ------------------- the manager with failing sends -------------------- *)
\* the peer of a registered websocket goes away: send_text on it raises
\* from now on
socket_lost(websocket) ==
    /\ Call
    /\ websocket \in handles(Mgr)
    /\ alive[websocket]
    /\ alive' = [alive EXCEPT ![websocket] = FALSE]
    /\ response' = Quiet
    /\ UNCHANGED <<Store, Manager, pc, args, room, pass, swept, now>>

\* ConnectionManager under connect calls and connection losses: the join
\* broadcasts find the failed recipients, prune them, and the pruning
\* creates the leave tasks
PruningNext ==
    \/ \E room_id \in ManagerRoomIds, client_id \in ManagerClientIds :
          events < MaxPruningCalls /\ connect(room_id, client_id)
    \/ \E websocket \in 1..MaxCalls :
          events < MaxPruningCalls /\ socket_lost(websocket)
    \/ \E i \in 1..Len(tasks) : start_task(i)
    \/ \E i \in 1..Len(tasks) : resume_task(i)

\* the event loop runs every task that is ready, and every send_text returns
\* or raises
PruningSpec ==
    /\ ManagerInit
    /\ [][PruningNext]_vars
    /\ WF_vars(\E i \in 1..Len(tasks) : start_task(i))
    /\ WF_vars(\E i \in 1..Len(tasks) : resume_task(i))

(* ================================ claims ================================ *)
Registered(room_id, client_id) ==
    room_id \in DOMAIN active_rooms /\ dict_has(active_rooms[room_id], client_id)

\* (room_id, client_id) is in the registry after the step
RegisteredNext(room_id, client_id) ==
    room_id \in DOMAIN active_rooms' /\ dict_has(active_rooms'[room_id], client_id)

\* the kinds of event broadcast_to_room carries
BroadcastKinds == {"join", "leave", "name_change", "random_action"}

\* connection s holds the registry entry of its (room_id, client_id)
Holds(s) ==
    /\ Registered(args[s].room_id, args[s].client_id)
    /\ dict_get(active_rooms[args[s].room_id], args[s].client_id) = s

\* connection s is in the receive loop of lines 269-335: awaiting a message,
\* or inside a broadcast a message handler made
Active(s) == pc[s] = "receive" \/ (pc[s] = "send" /\ pass[s].kind # "join")

\* C1: when a connection's coroutine ends from the receive loop (explicit
\* disconnect message, WebSocketDisconnect on receive, or an exception in a
\* message handler), its (room id, client id) is not in the registry once it
\* has ended.
C1_ClosedIsDeregistered ==
    [][\A s \in Sessions :
          (Active(s) /\ pc'[s] = "closed") =>
             ~Registered(args[s].room_id, args[s].client_id)']_vars

\* C2: every room id in the registry has at least one registered client, the
\* three maps of the registry hold the same room ids, and a client that joins
\* a room the registry did not hold is sent a member list naming only itself.
C2_NoEmptyRoom ==
    /\ DOMAIN user_names = DOMAIN active_rooms
    /\ DOMAIN last_activity = DOMAIN active_rooms
    /\ \A room_id \in DOMAIN active_rooms :
          /\ dict_len(active_rooms[room_id]) >= 1
          /\ DOMAIN user_names[room_id] # {}
    /\ \A s \in Sessions :
          (pc[s] = "send" /\ pass[s].kind = "join" /\ pass[s].dict = s) =>
             DOMAIN pass[s].message.users = {args[s].client_id}

\* a room the first connection had joined was emptied, and the second
\* connection is being sent its join event in the room entry it re-created
C2_Witness ==
    /\ pc[1] = "closed"
    /\ pc[2] = "send"
    /\ pass[2].kind = "join"
    /\ args[2].room_id = args[1].room_id
    /\ pass[2].dict = 2
    /\ active_rooms[args[2].room_id].id = 2

\* the recipients broadcast loop p started with are a mix of failing and
\* healthy connections
C3_Mixed(p) == (\E w \in p.start : alive[w]) /\ (\E w \in p.start : ~alive[w])

\* what C3 asks of a broadcast loop p that stops at this step: every
\* websocket registered from its start to now on which sends succeed has been
\* sent the event, and no recipient whose send failed is registered afterwards.
C3_Outcome(p) ==
    /\ \A w \in p.start :
          (p.room_id \in DOMAIN active_rooms
             /\ w \in dict_values(active_rooms[p.room_id]) /\ alive[w]) => w \in p.sent
    /\ \A i \in DOMAIN p.disconnected_clients :
          ~RegisteredNext(p.room_id, p.disconnected_clients[i])

\* C3: a join, leave, name_change or random_action broadcast to a mix of
\* failing and healthy recipients reaches every healthy recipient registered
\* for the whole pass, and when the pass ends the recipients whose send failed
\* are deregistered.
C3_BroadcastDelivers ==
    [][/\ \A s \in Sessions :
             (/\ pc[s] = "send"
              /\ pass[s].kind \in BroadcastKinds
              /\ C3_Mixed(pass[s])
              /\ resume_send(s)
              /\ resume(Mgr, pass[s], alive).status # "await") => C3_Outcome(pass[s])
       /\ \A i \in DOMAIN tasks :
             (/\ tasks[i].started
              /\ C3_Mixed(tasks[i])
              /\ resume_task(i)
              /\ resume(Mgr, tasks[i], alive).status # "await") => C3_Outcome(tasks[i])
      ]_vars

\* the registered client (room_id, client_id) is due for eviction at time now
C4_Due(room_id, client_id) ==
    /\ client_id \in DOMAIN last_activity[room_id]
    /\ now - last_activity[room_id][client_id] > inactivity_timeout

\* C4: a cleanup removes exactly the registered clients whose last activity
\* is more than inactivity_timeout before now, leaves the websocket, username
\* and last-activity time of every other registered client as they were,
\* registers nobody, and returns the number of clients it removed.
C4_Sweep ==
    [][cleanup_inactive_connections =>
          /\ \A room_id \in RoomIds, client_id \in ClientIds :
                IF Registered(room_id, client_id)
                THEN IF C4_Due(room_id, client_id)
                     THEN ~Registered(room_id, client_id)'
                     ELSE /\ Registered(room_id, client_id)'
                          /\ dict_get(active_rooms'[room_id], client_id)
                                = dict_get(active_rooms[room_id], client_id)
                          /\ user_names'[room_id][client_id]
                                = user_names[room_id][client_id]
                          /\ client_id \in DOMAIN last_activity[room_id]
                          /\ last_activity'[room_id][client_id]
                                = last_activity[room_id][client_id]
                ELSE ~Registered(room_id, client_id)'
          /\ response'.cleaned =
                Cardinality({rc \in RoomIds \X ClientIds :
                                Registered(rc[1], rc[2]) /\ C4_Due(rc[1], rc[2])})
      ]_vars

\* a cleanup has just removed one client of a room and kept another
C4_Witness ==
    /\ response.op = "cleanup_inactive_connections"
    /\ response.cleaned = 1
    /\ \E s \in swept : Registered(args[s].room_id, "a") \/ Registered(args[s].room_id, "b")

\* C5: once a cleanup has evicted a connection, a heartbeat, name_change,
\* coin_flip or number_draw arriving on it appends no log row, changes no
\* stored room parameter, changes nothing in the registry and starts no
\* broadcast.
C5_EvictedIsInert ==
    [][\A s \in swept :
          (\/ heartbeat(s)
           \/ \E username \in NameInputs : name_change(s, username)
           \/ \E result \in {"Heads", "Tails"} : coin_flip(s, result)
           \/ \E message \in NumberDrawMessages : number_draw(s, message)) =>
             /\ UNCHANGED <<rooms, logs, active_rooms, user_names, last_activity, tasks>>
             /\ pc'[s] # "send"]_vars

\* C6: every row of the rooms table has min_value < max_value.
C6_MinBelowMax ==
    \A room_id \in DOMAIN rooms : rooms[room_id].min_value < rooms[room_id].max_value

\* C7: update_params on an unknown room answers 404, on a known room with
\* min >= max answers 400, and in both cases leaves the rooms and logs
\* tables as they were; with min < max on a known room it answers 200 and
\* the room's row holds exactly the submitted min, max and flag, the other
\* rows being untouched.
C7_UpdateParams ==
    [][\A room_id \in RoomIds, min_value, max_value \in ParamInputs,
          with_replacement \in BOOLEAN :
          update_params(room_id, min_value, max_value, with_replacement) =>
             /\ logs' = logs
             /\ IF room_id \notin DOMAIN rooms
                THEN response'.status = 404 /\ rooms' = rooms
                ELSE IF min_value >= max_value
                THEN response'.status = 400 /\ rooms' = rooms
                ELSE /\ response'.status = 200
                     /\ DOMAIN rooms' = DOMAIN rooms
                     /\ rooms'[room_id] = [min_value |-> min_value,
                                           max_value |-> max_value,
                                           with_replacement |-> with_replacement]
                     /\ \A other \in DOMAIN rooms \ {room_id} :
                           rooms'[other] = rooms[other]]_vars
\* an update_params has been answered 200 and its values are stored
C7_Witness ==
    /\ response.op = "update_params"
    /\ response.status = 200
    /\ rooms["r1"] = [min_value |-> 10, max_value |-> 20, with_replacement |-> FALSE]

\* what a number_draw message resolves to against the stored row
C8_Resolved(message, row) ==
    [min_value |-> get(message, "min_value", row.min_value),
     max_value |-> get(message, "max_value", row.max_value),
     with_replacement |-> get(message, "with_replacement", row.with_replacement)]

\* C8: a number_draw whose resolved min/max/replacement (min below max) differ
\* from the stored row writes them to the rooms table and starts the random_action broadcast,
\* and the parameter_update broadcast of the same values starts when that
\* broadcast has returned; a number_draw whose resolved values equal the
\* stored row writes nothing and queues no parameter_update.
C8_PersistThenBroadcast ==
    [][\A s \in Sessions :
          /\ \A message \in NumberDrawMessages :
                (/\ number_draw(s, message)
                 /\ C8_Resolved(message, rooms[args[s].room_id]).min_value
                       < C8_Resolved(message, rooms[args[s].room_id]).max_value) =>
                   LET row == rooms[args[s].room_id]
                       resolved == C8_Resolved(message, row)
                   IN  IF resolved # row
                       THEN /\ rooms'[args[s].room_id] = resolved
                            /\ pc'[s] = "send"
                            /\ pass'[s].kind = "random_action"
                            /\ pass'[s].then = [kind |-> "parameter_update",
                                                parameters |-> resolved]
                       ELSE /\ rooms' = rooms
                            /\ pc'[s] = "send" => pass'[s].then = None
          /\ (/\ pc[s] = "send"
              /\ pass[s].kind = "random_action"
              /\ pass[s].then # None
              /\ resume_send(s)
              /\ resume(Mgr, pass[s], alive).status # "await") =>
                 /\ pc'[s] = "send"
                 /\ pass'[s].kind = "parameter_update"
                 /\ pass'[s].message.parameters = pass[s].then.parameters]_vars

\* C9: the result a number_draw without overrides logs is the decimal form
\* of an integer between the min_value and max_value stored for the room
\* when the message is handled.
C9_DrawWithinStoredBounds ==
    [][\A s \in Sessions :
          (number_draw(s, [type |-> "number_draw"]) /\ logs' # logs) =>
             \E r \in rooms[args[s].room_id].min_value
                        .. rooms[args[s].room_id].max_value :
                logs'[Len(logs')].result = str(r)]_vars

\* C10: a coin_flip or number_draw handled on a connection that holds its
\* registry entry appends exactly one row to logs, for its room and with the
\* action, result and username of the random_action event it starts
\* broadcasting; that broadcast returns having reached every registered
\* healthy client; and no row of logs is ever changed or removed.
C10_DrawLoggedAndDelivered ==
    [][/\ \A s \in Sessions :
             /\ (/\ Holds(s)
                 /\ \/ \E result \in {"Heads", "Tails"} : coin_flip(s, result)
                    \/ \E message \in NumberDrawMessages : number_draw(s, message)) =>
                   /\ Len(logs') = Len(logs) + 1
                   /\ pc'[s] = "send"
                   /\ pass'[s].kind = "random_action"
                   /\ logs'[Len(logs')] =
                         [room_id |-> args[s].room_id,
                          user_name |-> pass'[s].message.username,
                          action |-> pass'[s].message.action,
                          result |-> pass'[s].message.result]
             /\ (/\ pc[s] = "send"
                 /\ pass[s].kind = "random_action"
                 /\ resume_send(s)
                 /\ resume(Mgr, pass[s], alive).status # "await") =>
                    /\ resume(Mgr, pass[s], alive).status = "return"
                    /\ \A w \in dict_values(iterated(Mgr, pass[s])) :
                          alive[w] => w \in pass[s].sent
       /\ \A i \in DOMAIN logs : i \in DOMAIN logs' /\ logs'[i] = logs[i]
      ]_vars

\* C11: a handshake naming a room the rooms table does not hold ends rejected,
\* stays rejected, and leaves active_rooms, user_names, last_activity, the
\* tasks and every broadcast as they were; a handshake naming a stored room
\* registers the client under its connection and starts the join broadcast
\* about it.
C11_Handshake ==
    [][/\ \A s \in Sessions, room_id \in RoomIds, client_id \in ClientIds :
             handshake(s, room_id, client_id) =>
                IF room_id \notin DOMAIN rooms
                THEN /\ pc'[s] = "rejected"
                     /\ UNCHANGED <<active_rooms, user_names, last_activity, tasks>>
                     /\ pass' = pass
                ELSE /\ Registered(room_id, client_id)'
                     /\ dict_get(active_rooms'[room_id], client_id) = s
                     /\ client_id \in DOMAIN user_names'[room_id]
                     /\ last_activity'[room_id][client_id] = now
                     /\ pc'[s] = "send"
                     /\ pass'[s].kind = "join"
                     /\ pass'[s].room_id = room_id
                     /\ pass'[s].message.client_id = client_id
       /\ \A s \in Sessions : pc[s] = "rejected" => pc'[s] = "rejected"
      ]_vars

\* the second connection was rejected while the first is a member of a room
C11_Witness ==
    /\ pc[2] = "rejected"
    /\ pc[1] = "receive"
    /\ Holds(1)

\* C12: no step removes a row of the rooms table, only create_room adds one
\* (and it does add one), and get_room answers 200 for an id in the table and
\* 404 for an id that is not.
C12_RoomsStay ==
    [][/\ DOMAIN rooms \subseteq DOMAIN rooms'
       /\ DOMAIN rooms' # DOMAIN rooms => create_room
       /\ create_room => Cardinality(DOMAIN rooms') = Cardinality(DOMAIN rooms) + 1
       /\ \A room_id \in RoomIds :
             get_room(room_id) =>
                response'.status = IF room_id \in DOMAIN rooms THEN 200 ELSE 404
      ]_vars

\* a room is retrieved after a draw was logged and a cleanup evicted a client
C12_Witness ==
    /\ response.op = "get_room"
    /\ response.status = 200
    /\ logs # <<>>
    /\ swept # {}

\* the membership of registry m: its rooms, and for each room the client ids
\* with their display names
C13_Snapshot(m) ==
    [room_id \in DOMAIN m.active_rooms |->
        [clients |-> dict_keys(m.active_rooms[room_id]),
         names |-> m.user_names[room_id]]]

\* register of (room_id, client_id) on a new websocket, then its deregister
C13_RoundTrip(room_id, client_id) ==
    disconnect(register(Mgr, MaxCalls + 1, room_id, client_id, now), room_id, client_id)

C14_UniqueNames ==
    \A room_id \in DOMAIN user_names :
       \A c1, c2 \in DOMAIN user_names[room_id] :
          c1 # c2 => user_names[room_id][c1] # user_names[room_id][c2]

\* C15: a heartbeat from a registered client sets that client's last-activity
\* time to now and is answered by one heartbeat_ack on the sender's own
\* connection; every other last-activity time, the connections, the display
\* names, the tasks, every broadcast in progress, the rooms table and the
\* logs stay as they were, and the sender goes on receiving.
C15_HeartbeatFrame ==
    [][\A s \in Sessions :
          (Registered(args[s].room_id, args[s].client_id) /\ heartbeat(s)) =>
             /\ last_activity' = [last_activity EXCEPT
                                    ![args[s].room_id][args[s].client_id] = now]
             /\ response' = [op |-> "heartbeat_ack", to |-> s]
             /\ UNCHANGED <<active_rooms, user_names, tasks, rooms, logs, pc, pass>>
      ]_vars

\* a heartbeat has just been acknowledged in a room of two clients, and only
\* the sender's last-activity time has moved
C15_Witness ==
    /\ response.op = "heartbeat_ack"
    /\ Holds(1)
    /\ Holds(2)
    /\ args[1] = [room_id |-> "r1", client_id |-> "a"]
    /\ args[2] = [room_id |-> "r1", client_id |-> "b"]
    /\ last_activity["r1"][args[response.to].client_id] = now
    /\ \E c \in {"a", "b"} : last_activity["r1"][c] < now

\* C16 as stated: a message of another type changes nothing in the registry
\* (connections, names, last-activity times), the rooms table and the logs,
\* starts no broadcast, and leaves the sender receiving.
C16_UnrecognizedChangesNothing ==
    [][\A s \in Sessions :
          unrecognized(s) =>
             /\ UNCHANGED <<active_rooms, user_names, last_activity, tasks,
                            rooms, logs, pass>>
             /\ pc'[s] = "receive"]_vars

\* C16 amended: a message of another type from a registered client sets the
\* sender's last-activity time to now and changes nothing else in the
\* registry, the rooms table and the logs, starts no broadcast, and leaves
\* the sender receiving.
C16_UnrecognizedOnlyTouches ==
    [][\A s \in Sessions :
          (Registered(args[s].room_id, args[s].client_id) /\ unrecognized(s)) =>
             /\ last_activity' = [last_activity EXCEPT
                                    ![args[s].room_id][args[s].client_id] = now]
             /\ UNCHANGED <<active_rooms, user_names, tasks, rooms, logs, pass>>
             /\ pc'[s] = "receive"
             /\ alive'[s]]_vars

\* the one message handled so far came from the first of two clients of a
\* room, after time had passed: it moved the sender's last-activity time,
\* was not answered, and left names, logs and parameters as they were
C16_Witness ==
    /\ events = 1
    /\ response = Quiet
    /\ pc = [s \in Sessions |-> "receive"]
    /\ alive = [s \in Sessions |-> TRUE]
    /\ Holds(1)
    /\ Holds(2)
    /\ args[1] = [room_id |-> "r1", client_id |-> "a"]
    /\ args[2] = [room_id |-> "r1", client_id |-> "b"]
    /\ last_activity["r1"]["a"] = now
    /\ last_activity["r1"]["b"] < now
    /\ user_names["r1"] = [c \in {"a", "b"} |-> IF c = "a" THEN "User 1" ELSE "User 2"]
    /\ logs = <<>>
    /\ rooms["r1"].min_value = DefaultMin

\* C17: a message handled on a connection whose (room id, client id) is not
\* registered adds no last-activity time and changes none.
C17_TouchOfAbsentClient ==
    [][\A s \in Sessions :
          (/\ ~Registered(args[s].room_id, args[s].client_id)
           /\ heartbeat(s) \/ unrecognized(s)) =>
             last_activity' = last_activity]_vars

\* C18: disconnect of a (room id, client id) that is not registered returns
\* the manager as it was; so the beacon for such a pair answers 204 and a
\* connection that closes after its client was removed change nothing in
\* the registry and create no leave task.
C18_DeregisterOfAbsent ==
    [][/\ \A room_id \in RoomIds, client_id \in ClientIds :
             ~Registered(room_id, client_id) =>
                /\ disconnect(Mgr, room_id, client_id) = Mgr
                /\ handle_disconnect(room_id, client_id) =>
                      /\ UNCHANGED <<active_rooms, user_names, last_activity, tasks>>
                      /\ response'.status = 204
       /\ \A s \in Sessions :
             (/\ ~Registered(args[s].room_id, args[s].client_id)
              /\ websocket_disconnect(s)) =>
                UNCHANGED <<active_rooms, user_names, last_activity, tasks>>
      ]_vars

\* the beacon has just been answered and made no leave task, in a room that
\* the first connection's client has left and the second's is still in
C18_Witness ==
    /\ response.op = "handle_disconnect"
    /\ tasks = <<>>
    /\ pc[1] \notin {"new", "rejected"}
    /\ args[1] = [room_id |-> "r1", client_id |-> "a"]
    /\ args[2] = [room_id |-> "r1", client_id |-> "b"]
    /\ ~Registered("r1", "a")
    /\ Holds(2)

\* C19: when a parameter_update broadcast returns, no recipient it failed to
\* send to is registered in the room any more.
C19_ParameterUpdatePrunes ==
    [][\A s \in Sessions :
          (/\ pc[s] = "send"
           /\ pass[s].kind = "parameter_update"
           /\ resume_send(s)
           /\ resume(Mgr, pass[s], alive).status = "return") =>
             \A i \in DOMAIN pass[s].disconnected_clients :
                ~RegisteredNext(pass[s].room_id, pass[s].disconnected_clients[i])
      ]_vars

\* C20: a disconnect that removes a registered client and leaves its room
\* non-empty creates the task of a leave event naming the client, its
\* display name and the members without it; and when that task ends, every
\* connection registered in the room since the task started, and still
\* registered, has been sent the event.  (Only this task sends the event: a
\* task that ends without having sent it never will.)
C20_LeaveReachesTheRoom ==
    [][/\ \A room_id \in RoomIds, client_id \in ManagerClientIds :
             (/\ Registered(room_id, client_id)
              /\ dict_len(active_rooms[room_id]) > 1
              /\ disconnect_call(room_id, client_id)) =>
                /\ Len(tasks') = Len(tasks) + 1
                /\ tasks'[Len(tasks')].kind = "leave"
                /\ ~tasks'[Len(tasks')].started
                /\ tasks'[Len(tasks')].message =
                      [type |-> "leave", client_id |-> client_id,
                       username |-> user_names[room_id][client_id],
                       users |-> [c \in DOMAIN user_names[room_id] \ {client_id} |->
                                     user_names[room_id][c]]]
       /\ \A i \in DOMAIN tasks :
             (/\ tasks[i].kind = "leave"
              /\ tasks[i].started
              /\ resume_task(i)
              /\ resume(Mgr, tasks[i], alive).status # "await") =>
                \A w \in tasks[i].start :
                   (/\ tasks[i].room_id \in DOMAIN active_rooms
                    /\ w \in dict_values(active_rooms[tasks[i].room_id])
                    /\ alive[w]) => w \in tasks[i].sent
      ]_vars

\* C21: the step of a number_draw that makes its log row visible also leaves
\* in the rooms table every parameter the request changed (no await separates
\* the two commits, and the parameters are committed first); so no state
\* shows the row of a draw without that draw's parameters.
C21_LogNeverBeforeParameters ==
    [][\A s \in Sessions, message \in NumberDrawMessages :
          (number_draw(s, message) /\ Len(logs') > Len(logs)) =>
             LET room_id == args[s].room_id
                 obj == refreshed(room[s], room_id)
                 min_val == get(message, "min_value", obj.min_value)
                 max_val == get(message, "max_value", obj.max_value)
                 with_replacement ==
                    get(message, "with_replacement", obj.with_replacement)
             IN  /\ min_val # obj.min_value => rooms'[room_id].min_value = min_val
                 /\ max_val # obj.max_value => rooms'[room_id].max_value = max_val
                 /\ with_replacement # obj.with_replacement =>
                       rooms'[room_id].with_replacement = with_replacement
      ]_vars

\* a draw that changed the stored range has its log row and its parameters
\* in the store, and its random_action broadcast is under way
C21_Witness ==
    /\ Len(logs) = 1
    /\ logs[1].action = "Number Draw"
    /\ rooms["r1"].min_value = 10
    /\ rooms["r1"].max_value = 20
    /\ \E s \in Sessions :
          /\ pc[s] = "send"
          /\ pass[s].kind = "random_action"
          /\ pass[s].then # None

\* C22: a connection whose own socket is healthy and which holds its registry
\* entry, suspended in a send_text of a broadcast one of its message
\* handlers made, is still open and still
\* registered when it resumes, whatever other tasks did to the registry in
\* the meantime: the broadcast is not aborted, and the broadcasting
\* connection is neither closed nor deregistered.
C22_MutationLeavesBroadcasterOpen ==
    [][\A s \in Sessions :
          (pc[s] = "send" /\ Active(s) /\ alive[s] /\ Holds(s) /\ resume_send(s)) =>
             /\ resume(Mgr, pass[s], alive).status # "RuntimeError"
             /\ pc'[s] # "closed"
             /\ RegisteredNext(args[s].room_id, args[s].client_id)
      ]_vars

\* the registry entries the next turn of broadcast p attempts a send_text on
C23_Attempted(p) ==
    LET r == resume(Mgr, p, alive)
    IN  IF r.status = "await" THEN {iterated(Mgr, p).entries[r.p.pos - 1]} ELSE {}

\* every send_text broadcast p attempts next is on a connection the registry
\* of the room holds now
C23_OnlyRegistered(p) ==
    \A e \in C23_Attempted(p) :
       /\ Registered(p.room_id, e.key)
       /\ dict_get(active_rooms[p.room_id], e.key) = e.val

\* C23: with any subset of the registered clients failing on send, the chain
\* broadcast -> pruning -> leave broadcast -> ... always comes to a state with
\* no broadcast pending, and a leave broadcast never attempts a send on a
\* connection that is no longer registered (a pruned one).
C23_PruningTerminates ==
    /\ []<>(tasks = <<>>)
    /\ [][\A i \in 1..Len(tasks) :
             /\ (~tasks[i].started /\ start_task(i)
                                   /\ tasks[i].room_id \in DOMAIN active_rooms) =>
                   C23_OnlyRegistered(new_pass(Mgr, "leave", tasks[i].room_id,
                                               tasks[i].message, None))
             /\ (tasks[i].started /\ tasks[i].kind = "leave" /\ resume_task(i)) =>
                   C23_OnlyRegistered(tasks[i])
         ]_vars

\* a pruning has created a leave task, that task is suspended in a send, and
\* every connection still registered in the room fails on send
C23_Witness ==
    \E i \in 1..Len(tasks) :
       /\ tasks[i].kind = "leave"
       /\ tasks[i].started
       /\ tasks[i].room_id \in DOMAIN active_rooms
       /\ tasks[i].disconnected_clients # <<>>
       /\ \A w \in dict_values(active_rooms[tasks[i].room_id]) : ~alive[w]

\* C24: the step in which one connection's coroutine ends (closed or errored)
\* leaves every other connection that is in its receive loop or a broadcast,
\* and that holds its registry entry, registered with its own websocket:
\* also when both connections gave the same client id.
C24_CloseKeepsOthersRegistered ==
    [][\A s \in Sessions : \A t \in Sessions \ {s} :
          (/\ pc[s] \in {"receive", "send"}
           /\ pc'[s] = "closed"
           /\ pc[t] \in {"receive", "send"}
           /\ Holds(t)) =>
             /\ RegisteredNext(args[t].room_id, args[t].client_id)
             /\ dict_get(active_rooms'[args[t].room_id], args[t].client_id) = t
      ]_vars

\* C25: in every room of the registry, the client ids with a display name are
\* exactly those with a connection, and each of them has a last-activity
\* timestamp; the three maps know the same rooms.
C25_RegistryMapsAgree ==
    /\ DOMAIN user_names = DOMAIN active_rooms
    /\ DOMAIN last_activity = DOMAIN active_rooms
    /\ \A room_id \in DOMAIN active_rooms :
          /\ DOMAIN user_names[room_id] = dict_keys(active_rooms[room_id])
          /\ dict_keys(active_rooms[room_id]) \subseteq DOMAIN last_activity[room_id]

\* a room that has lost a client and kept another, whose timestamps name a
\* client the registry does not hold
C25_Witness ==
    \E room_id \in DOMAIN active_rooms :
       /\ dict_keys(active_rooms[room_id]) # {}
       /\ \E i \in 1..Len(active_rooms[room_id].entries) :
             ~active_rooms[room_id].entries[i].live
       /\ DOMAIN last_activity[room_id] # dict_keys(active_rooms[room_id])

\* the websockets the next turn of broadcast p delivers its event to
C26_Delivered(p) ==
    LET r == resume(Mgr, p, alive)
    IN  IF r.status = "await" THEN r.p.sent \ p.sent ELSE {}

\* no broadcast whose member list was taken later (a later place in `tasks`)
\* has already delivered to any of the websockets
C26_NoLaterSnapshotDelivered(i, websockets) ==
    \A j \in (i + 1)..Len(tasks) : \A w \in websockets :
       tasks[j].started => w \notin tasks[j].sent

\* C26: member lists reach each client in the order their snapshots were
\* taken: when a join or leave broadcast delivers its event to a client, no
\* broadcast with a later snapshot has delivered its event to that client
\* before.
C26_SnapshotOrder ==
    [][\A i \in 1..Len(tasks) :
          /\ (~tasks[i].started /\ start_task(i)
                                /\ tasks[i].room_id \in DOMAIN active_rooms) =>
                C26_NoLaterSnapshotDelivered(i,
                   C26_Delivered(new_pass(Mgr, "leave", tasks[i].room_id,
                                          tasks[i].message, None)))
          /\ (tasks[i].started /\ resume_task(i)) =>
                C26_NoLaterSnapshotDelivered(i, C26_Delivered(tasks[i]))
      ]_vars

====
